---- MODULE Spec2Model ----
(***************************************************************************)
(* The type graph of zeep.xsd.types: reference resolution                  *)
(* (UnresolvedType, UnresolvedCustomType, ComplexType, ListType,           *)
(* UnionType), as a machine of call stacks over a shared heap of types.    *)
(***************************************************************************)
EXTENDS Naturals, Sequences, FiniteSets, TLC

\* ------------------------------------------------------------------ bounds

\* top-level resolve() calls the single caller of the sequential runs makes
MaxCalls == 2
\* frames a thread's call stack may hold before the interpreter raises
\* RecursionError (CPython's recursion limit, scaled down)
RecursionLimit == 10

\* ------------------------------------------------------------ the universe

Threads == {"t1", "t2"}
\* the ComplexType instances of the schema; each is registered under its name
ComplexTypes == {"A", "B"}
\* qualified names the schema registry knows: A, B (ComplexType), S (a
\* SimpleType), L (a ListType), Un (a UnionType).  "M" is known to nobody.
Registered == {"A", "B", "S", "L", "Un"}

\* ------------------------------------------------------------- references
\* A field of a type holds a reference: nothing, a type object of the schema,
\* an UnresolvedType(qname), an UnresolvedCustomType(name, base), or a type
\* object that UnresolvedCustomType.resolve() synthesized.

None == [k |-> "none"]
Obj(id) == [k |-> "obj", id |-> id]
Unres(q) == [k |-> "unres", q |-> q]
Custom(name, base) == [k |-> "custom", name |-> name, base |-> base]
New(serial, name, cls) == [k |-> "new", serial |-> serial, name |-> name, cls |-> cls]

\* a content node that is a sequence of elements and groups
Sequence(items) == [k |-> "seq", items |-> items]

\* Python truth of a field: only None and an empty list are false
Truthy(ref) == ref.k # "none" /\ (ref.k = "seq" => ref.items # <<>>)

\* isinstance(ref, UnresolvedType)
IsUnresolvedType(ref) == ref.k = "unres"

\* base.__class__, up to the built-in class it derives from
ClassOf(ref) ==
    CASE ref.k = "obj" /\ ref.id \in ComplexTypes -> "ComplexType"
      [] ref.k = "obj" /\ ref.id = "S" -> "SimpleType"
      [] ref.k = "obj" /\ ref.id = "L" -> "ListType"
      [] ref.k = "obj" /\ ref.id = "Un" -> "UnionType"
      [] ref.k = "new" -> ref.cls
      [] ref.k = "unres" -> "UnresolvedType"
      [] ref.k = "custom" -> "UnresolvedCustomType"
      [] OTHER -> "NoneType"

\* an element or attribute declaration: a name and the reference to its type
Element(name, type) == [k |-> "elem", name |-> name, type |-> type]

VARIABLES
    resolved,        \* ComplexType._resolved, per instance
    extension,       \* ComplexType._extension
    restriction,     \* ComplexType._restriction
    element,         \* ComplexType._element
    own_attributes,  \* ComplexType._attributes
    item_type,       \* ListType.item_type of L
    item_types,      \* UnionType.item_types of Un
    stack,           \* per thread: the frames of its running calls
    retval,          \* per thread: the value the last finished frame returned
    outcome,         \* per thread: how its last top-level resolve() ended
    call,            \* per thread: its last top-level call, and the heap it saw
    budget,          \* per thread: top-level calls it may still make
    bodyRuns,        \* per ComplexType: times the body of resolve() was entered
    lookups,         \* schema.get_type() calls made so far
    completed,       \* ComplexTypes some resolve() call on which returned normally
    nalloc,          \* type objects synthesized so far
    customLog,       \* what each UnresolvedCustomType.resolve() got and returned
    cache,           \* per ComplexType, per view: the entry of the instance __dict__
    lock,            \* per view: the RLock of its threaded_cached_property
    viewRuns         \* per ComplexType, per view: times the view's body was entered

vars == <<resolved, extension, restriction, element, own_attributes, item_type,
          item_types, stack, retval, outcome, call, budget, bodyRuns, lookups,
          completed, nalloc, customLog, cache, lock, viewRuns>>

\* the state of the derived views
viewVars == <<cache, lock, viewRuns>>

heap == <<resolved, extension, restriction, element, own_attributes, item_type,
          item_types>>

\* ---------------------------------------------------------- reachability

Range(s) == {s[i] : i \in 1..Len(s)}

\* the type references an object holds (extension, restriction, list
\* item type, union alternatives)
RefsOf(id) ==
    CASE id \in ComplexTypes -> {extension[id], restriction[id]}
      [] id = "L" -> {item_type}
      [] id = "Un" -> Range(item_types)
      [] OTHER -> {}

\* the unresolved reference a reference stands for, if any
IsUnresolved(ref) == ref.k \in {"unres", "custom"}

\* the qualified name a reference makes the registry look up, if any
LookupOf(ref) ==
    CASE ref.k = "unres" -> {ref.q}
      [] ref.k = "custom" /\ ref.base.k = "unres" -> {ref.base.q}
      [] OTHER -> {}

\* the schema objects a reference leads resolve() to (a base given to an
\* UnresolvedCustomType as a concrete type is used as it is, not walked)
TargetsOf(ref) ==
    CASE ref.k = "obj" -> {ref.id}
      [] OTHER -> LookupOf(ref) \cap Registered

RECURSIVE ReachFrom(_)
ReachFrom(ids) ==
    LET more == ids \cup UNION {TargetsOf(r) : r \in UNION {RefsOf(i) : i \in ids}}
    IN  IF more = ids THEN ids ELSE ReachFrom(more)

Reach(id) == ReachFrom({id})

\* an UnresolvedType naming a name absent from the registry is reachable
MissingReachable(id) ==
    \E i \in Reach(id) : \E r \in RefsOf(i) : LookupOf(r) \ Registered # {}

\* some Unresolved* reference is reachable
UnresolvedReachable(id) ==
    \E i \in Reach(id) : \E r \in RefsOf(i) : IsUnresolved(r)

\* ------------------------------------------------------------ call stacks

Top(t) == stack[t][Len(stack[t])]
Running(t) == stack[t] # <<>>
At(t, f, pc) == Running(t) /\ Top(t).f = f /\ Top(t).pc = pc

\* the frame a call of ref.resolve() starts in
FrameFor(ref) ==
    CASE ref.k = "unres" -> [f |-> "UnresolvedType", q |-> ref.q, pc |-> "get_type"]
      [] ref.k = "custom" -> [f |-> "UnresolvedCustomType", r |-> ref, pc |-> "base"]
      [] ref.k = "elem" -> [f |-> "Element", e |-> ref, pc |-> "type"]
      [] ref.k = "new" -> [f |-> "Synthesized", r |-> ref, pc |-> "return"]
      [] ref.k = "obj" /\ ref.id \in ComplexTypes ->
            [f |-> "ComplexType", o |-> ref.id, pc |-> "check", i |-> 0]
      [] ref.k = "obj" /\ ref.id = "S" -> [f |-> "SimpleType", pc |-> "return"]
      [] ref.k = "obj" /\ ref.id = "L" -> [f |-> "ListType", pc |-> "item"]
      [] OTHER -> [f |-> "UnionType", pc |-> "items", i |-> 1, acc |-> <<>>]

Ended(how, v) == [k |-> how, v |-> v]
Error(name) == [k |-> "error", name |-> name]

\* an exception nobody catches: the thread's frames are all unwound
Raise(t, error) ==
    /\ stack' = [stack EXCEPT ![t] = <<>>]
    /\ outcome' = [outcome EXCEPT ![t] = Ended("raised", error)]
    /\ retval' = retval

\* the running frame moves on to pc
Goto(t, pc) ==
    /\ stack' = [stack EXCEPT ![t][Len(stack[t])].pc = pc]
    /\ UNCHANGED <<retval, outcome>>

\* the running frame calls ref.resolve() and will go on as the frame `after`
InvokeAs(t, ref, after) ==
    IF Len(stack[t]) >= RecursionLimit
    THEN Raise(t, Error("RecursionError"))
    ELSE /\ stack' = [stack EXCEPT
                 ![t] = Append([@ EXCEPT ![Len(@)] = after], FrameFor(ref))]
         /\ UNCHANGED <<retval, outcome>>

\* the running frame calls ref.resolve() and will go on at pc
Invoke(t, ref, pc) == InvokeAs(t, ref, [Top(t) EXCEPT !.pc = pc])

\* the running frame returns v to its caller
Return(t, v) ==
    /\ stack' = [stack EXCEPT ![t] = SubSeq(@, 1, Len(@) - 1)]
    /\ retval' = [retval EXCEPT ![t] = v]
    /\ outcome' = IF Len(stack[t]) = 1
                  THEN [outcome EXCEPT ![t] = Ended("returned", v)]
                  ELSE outcome

\* ------------------------------------------------- a caller of resolve()

\* a thread calls o.resolve() on a ComplexType of the schema
Call(t, o) ==
    /\ ~Running(t)
    /\ budget[t] > 0
    /\ budget' = [budget EXCEPT ![t] = @ - 1]
    /\ stack' = [stack EXCEPT ![t] = <<FrameFor(Obj(o))>>]
    /\ outcome' = [outcome EXCEPT ![t] = Ended("running", None)]
    /\ call' = [call EXCEPT ![t] =
                    [o |-> o, wasResolved |-> resolved[o],
                     missing |-> MissingReachable(o),
                     heap |-> heap, lookups |-> lookups, bodyRuns |-> bodyRuns]]
    /\ UNCHANGED viewVars
    /\ UNCHANGED <<heap, retval, bodyRuns, lookups, completed, nalloc, customLog>>

\* --------------------------------------------------- ComplexType.resolve

\* ComplexType_resolve_check without its test of the flag
ComplexType_resolve_check_unguarded(t) ==
    /\ At(t, "ComplexType", "check")
    /\ Goto(t, "mark")
    /\ UNCHANGED viewVars
    /\ UNCHANGED <<heap, call, budget, bodyRuns, lookups, completed, nalloc, customLog>>

\* if self._resolved: return self
ComplexType_resolve_check(t) ==
    /\ At(t, "ComplexType", "check")
    /\ IF resolved[Top(t).o]
       THEN /\ Return(t, Obj(Top(t).o))
            /\ completed' = completed \cup {Top(t).o}
       ELSE /\ Goto(t, "mark")
            /\ completed' = completed
    /\ UNCHANGED viewVars
    /\ UNCHANGED <<heap, call, budget, bodyRuns, lookups, nalloc, customLog>>

\* ComplexType_resolve_mark without its assignment to the flag
ComplexType_resolve_mark_unset(t) ==
    /\ At(t, "ComplexType", "mark")
    /\ bodyRuns' = [bodyRuns EXCEPT ![Top(t).o] = @ + 1]
    /\ Goto(t, "extension")
    /\ UNCHANGED viewVars
    /\ UNCHANGED <<heap, call, budget, lookups, completed, nalloc, customLog>>

\* self._resolved = True
ComplexType_resolve_mark(t) ==
    /\ At(t, "ComplexType", "mark")
    /\ resolved' = [resolved EXCEPT ![Top(t).o] = TRUE]
    /\ bodyRuns' = [bodyRuns EXCEPT ![Top(t).o] = @ + 1]
    /\ Goto(t, "extension")
    /\ UNCHANGED viewVars
    /\ UNCHANGED <<extension, restriction, element, own_attributes, item_type,
                   item_types, call, budget, lookups, completed, nalloc, customLog>>

\* if self._extension: ... self._extension.resolve()
ComplexType_resolve_extension(t) ==
    /\ At(t, "ComplexType", "extension")
    /\ IF Truthy(extension[Top(t).o])
       THEN Invoke(t, extension[Top(t).o], "extension_store")
       ELSE Goto(t, "restriction")
    /\ UNCHANGED viewVars
    /\ UNCHANGED <<heap, call, budget, bodyRuns, lookups, completed, nalloc, customLog>>

\* self._extension = <the value resolve() returned>
ComplexType_resolve_extension_store(t) ==
    /\ At(t, "ComplexType", "extension_store")
    /\ extension' = [extension EXCEPT ![Top(t).o] = retval[t]]
    /\ Goto(t, "restriction")
    /\ UNCHANGED viewVars
    /\ UNCHANGED <<resolved, restriction, element, own_attributes, item_type,
                   item_types, call, budget, bodyRuns, lookups, completed, nalloc,
                   customLog>>

\* if self._restriction: ... self._restriction.resolve()
ComplexType_resolve_restriction(t) ==
    /\ At(t, "ComplexType", "restriction")
    /\ IF Truthy(restriction[Top(t).o])
       THEN Invoke(t, restriction[Top(t).o], "restriction_store")
       ELSE Goto(t, "element")
    /\ UNCHANGED viewVars
    /\ UNCHANGED <<heap, call, budget, bodyRuns, lookups, completed, nalloc, customLog>>

\* self._restriction = <the value resolve() returned>
ComplexType_resolve_restriction_store(t) ==
    /\ At(t, "ComplexType", "restriction_store")
    /\ restriction' = [restriction EXCEPT ![Top(t).o] = retval[t]]
    /\ Goto(t, "element")
    /\ UNCHANGED viewVars
    /\ UNCHANGED <<resolved, extension, element, own_attributes, item_type,
                   item_types, call, budget, bodyRuns, lookups, completed, nalloc,
                   customLog>>

\* if self._element: ... self._element.resolve()
ComplexType_resolve_element(t) ==
    /\ At(t, "ComplexType", "element")
    /\ IF Truthy(element[Top(t).o])
       THEN Invoke(t, element[Top(t).o], "element_store")
       ELSE Goto(t, "attributes")
    /\ UNCHANGED viewVars
    /\ UNCHANGED <<heap, call, budget, bodyRuns, lookups, completed, nalloc, customLog>>

\* self._element = <the value resolve() returned>
ComplexType_resolve_element_store(t) ==
    /\ At(t, "ComplexType", "element_store")
    /\ element' = [element EXCEPT ![Top(t).o] = retval[t]]
    /\ Goto(t, "attributes")
    /\ UNCHANGED viewVars
    /\ UNCHANGED <<resolved, extension, restriction, own_attributes, item_type,
                   item_types, call, budget, bodyRuns, lookups, completed, nalloc,
                   customLog>>

\* for i, attribute in enumerate(self._attributes): attribute.resolve()
ComplexType_resolve_attributes(t) ==
    /\ At(t, "ComplexType", "attributes")
    /\ IF Top(t).i + 1 <= Len(own_attributes[Top(t).o])
       THEN InvokeAs(t, own_attributes[Top(t).o][Top(t).i + 1],
                     [Top(t) EXCEPT !.pc = "attribute_store", !.i = @ + 1])
       ELSE Goto(t, "return")
    /\ UNCHANGED viewVars
    /\ UNCHANGED <<heap, call, budget, bodyRuns, lookups, completed, nalloc, customLog>>

\* self._attributes[i] = <the value resolve() returned>
ComplexType_resolve_attribute_store(t) ==
    /\ At(t, "ComplexType", "attribute_store")
    /\ own_attributes' = [own_attributes EXCEPT ![Top(t).o][Top(t).i] = retval[t]]
    /\ Goto(t, "attributes")
    /\ UNCHANGED viewVars
    /\ UNCHANGED <<resolved, extension, restriction, element, item_type,
                   item_types, call, budget, bodyRuns, lookups, completed, nalloc,
                   customLog>>

\* return self
ComplexType_resolve_return(t) ==
    /\ At(t, "ComplexType", "return")
    /\ Return(t, Obj(Top(t).o))
    /\ completed' = completed \cup {Top(t).o}
    /\ UNCHANGED viewVars
    /\ UNCHANGED <<heap, call, budget, bodyRuns, lookups, nalloc, customLog>>

\* ------------------------------------------------ UnresolvedType.resolve

\* retval = self.schema.get_type(self.qname); ... retval.resolve()
UnresolvedType_resolve_get_type(t) ==
    /\ At(t, "UnresolvedType", "get_type")
    /\ lookups' = lookups + 1
    /\ IF Top(t).q \in Registered
       THEN Invoke(t, Obj(Top(t).q), "return")
       ELSE Raise(t, Error("LookupError"))
    /\ UNCHANGED viewVars
    /\ UNCHANGED <<heap, call, budget, bodyRuns, completed, nalloc, customLog>>

\* return <the value retval.resolve() returned>
UnresolvedType_resolve_return(t) ==
    /\ At(t, "UnresolvedType", "return")
    /\ Return(t, retval[t])
    /\ UNCHANGED viewVars
    /\ UNCHANGED <<heap, call, budget, bodyRuns, lookups, completed, nalloc, customLog>>

\* ------------------------------------------ UnresolvedCustomType.resolve

\* base = self.base_qname; if isinstance(..., UnresolvedType): base = base.resolve()
UnresolvedCustomType_resolve_base(t) ==
    /\ At(t, "UnresolvedCustomType", "base")
    /\ IF IsUnresolvedType(Top(t).r.base)
       THEN Invoke(t, Top(t).r.base, "type")
       ELSE /\ stack' = [stack EXCEPT ![t][Len(stack[t])].pc = "type"]
            /\ retval' = [retval EXCEPT ![t] = Top(t).r.base]
            /\ outcome' = outcome
    /\ UNCHANGED viewVars
    /\ UNCHANGED <<heap, call, budget, bodyRuns, lookups, completed, nalloc, customLog>>

\* the instance xsd_type() builds: the class is type(self.name, (base.__class__,),
\* ...) and its __init__ is called without arguments
Synthesize(serial, name, base) == New(serial, name, ClassOf(base))

\* xsd_type = type(self.name, (base.__class__,), cls_attributes); return xsd_type()
UnresolvedCustomType_resolve_type(t) ==
    /\ At(t, "UnresolvedCustomType", "type")
    /\ IF ClassOf(retval[t]) \in {"ComplexType", "SimpleType"}
       THEN /\ Return(t, Synthesize(nalloc + 1, Top(t).r.name, retval[t]))
            /\ nalloc' = nalloc + 1
            /\ customLog' = customLog \cup
                   {[name |-> Top(t).r.name, base |-> retval[t],
                     result |-> Synthesize(nalloc + 1, Top(t).r.name, retval[t])]}
       ELSE \* the other classes' __init__ wants arguments: TypeError
            /\ Raise(t, Error("TypeError"))
            /\ UNCHANGED <<nalloc, customLog>>
    /\ UNCHANGED viewVars
    /\ UNCHANGED <<heap, call, budget, bodyRuns, lookups, completed>>

\* --------------------------------------- resolve() of the concrete leaves

\* SimpleType.resolve: return self
SimpleType_resolve(t) ==
    /\ At(t, "SimpleType", "return")
    /\ Return(t, Obj("S"))
    /\ UNCHANGED viewVars
    /\ UNCHANGED <<heap, call, budget, bodyRuns, lookups, completed, nalloc, customLog>>

\* resolve() of an instance UnresolvedCustomType.resolve() built: it has no
\* extension, restriction, element or attribute, and returns itself
Synthesized_resolve(t) ==
    /\ At(t, "Synthesized", "return")
    /\ Return(t, Top(t).r)
    /\ UNCHANGED viewVars
    /\ UNCHANGED <<heap, call, budget, bodyRuns, lookups, completed, nalloc, customLog>>

\* ListType.resolve: ... self.item_type.resolve()
ListType_resolve_item(t) ==
    /\ At(t, "ListType", "item")
    /\ Invoke(t, item_type, "item_store")
    /\ UNCHANGED viewVars
    /\ UNCHANGED <<heap, call, budget, bodyRuns, lookups, completed, nalloc, customLog>>

\* ListType.resolve: self.item_type = <the value returned>; return self
ListType_resolve_return(t) ==
    /\ At(t, "ListType", "item_store")
    /\ item_type' = retval[t]
    /\ Return(t, Obj("L"))
    /\ UNCHANGED viewVars
    /\ UNCHANGED <<resolved, extension, restriction, element, own_attributes,
                   item_types, call, budget, bodyRuns, lookups, completed, nalloc,
                   customLog>>

\* UnionType.resolve: [item.resolve() for item in self.item_types], one item
UnionType_resolve_items(t) ==
    /\ At(t, "UnionType", "items")
    /\ Top(t).i <= Len(item_types)
    /\ Invoke(t, item_types[Top(t).i], "collect")
    /\ UNCHANGED viewVars
    /\ UNCHANGED <<heap, call, budget, bodyRuns, lookups, completed, nalloc, customLog>>

\* UnionType.resolve: the comprehension takes the value the item's resolve() returned
UnionType_resolve_collect(t) ==
    /\ At(t, "UnionType", "collect")
    /\ stack' = [stack EXCEPT ![t][Len(stack[t])] =
                    [@ EXCEPT !.pc = "items", !.i = @ + 1,
                              !.acc = Append(@, retval[t])]]
    /\ UNCHANGED viewVars
    /\ UNCHANGED <<heap, retval, outcome, call, budget, bodyRuns, lookups,
                   completed, nalloc, customLog>>

\* UnionType.resolve: self.item_types = [...]; return self
UnionType_resolve_return(t) ==
    /\ At(t, "UnionType", "items")
    /\ Top(t).i > Len(item_types)
    /\ item_types' = Top(t).acc
    /\ Return(t, Obj("Un"))
    /\ UNCHANGED viewVars
    /\ UNCHANGED <<resolved, extension, restriction, element, own_attributes,
                   item_type, call, budget, bodyRuns, lookups, completed, nalloc,
                   customLog>>

\* Element.resolve and Attribute.resolve (zeep.xsd.elements): the declaration
\* resolves the reference to its type
Element_resolve_type(t) ==
    /\ At(t, "Element", "type")
    /\ Invoke(t, Top(t).e.type, "type_store")
    /\ UNCHANGED viewVars
    /\ UNCHANGED <<heap, call, budget, bodyRuns, lookups, completed, nalloc, customLog>>

\* Element.resolve: self.type = <the value returned>; return self
Element_resolve_return(t) ==
    /\ At(t, "Element", "type_store")
    /\ Return(t, [Top(t).e EXCEPT !.type = retval[t]])
    /\ UNCHANGED viewVars
    /\ UNCHANGED <<heap, call, budget, bodyRuns, lookups, completed, nalloc, customLog>>

\* ------------------------------------------------------- the type graphs

\* what the schema parser may leave in _extension
ExtensionChoices ==
    {None, Unres("A"), Unres("B"), Unres("M"), Unres("S"),
     Custom("N", Unres("A")), Custom("N", Obj("B"))}

\* what the schema parser may leave in _restriction
RestrictionChoices == {None, Unres("M"), Unres("L"), Unres("Un")}

\* what the schema parser may leave in _element
ElementChoices ==
    [A |-> {None, Element("a", Unres("S")), Element("next", Unres("B"))},
     B |-> {None, Element("b", Unres("S"))}]

\* a type declared with a scalar element also declares one attribute
AttributesWith(e) ==
    IF e.k = "elem" /\ e.type = Unres("S")
    THEN <<Element("id", Unres("S"))>> ELSE <<>>

Views == {"attributes", "elements_nested", "elements"}
Absent == [k |-> "absent"]
Free == [owner |-> "none", count |-> 0]

\* no view was read yet
InitViewVars ==
    /\ cache = [o \in ComplexTypes |-> [v \in Views |-> Absent]]
    /\ lock = [v \in Views |-> Free]
    /\ viewRuns = [o \in ComplexTypes |-> [v \in Views |-> 0]]

\* the state before any resolve(), but for the graph's references
InitRest ==
    /\ resolved = [o \in ComplexTypes |-> FALSE]
    /\ own_attributes = [o \in ComplexTypes |-> AttributesWith(element[o])]
    /\ item_type = Custom("N", Unres("S"))
    /\ item_types = <<Unres("S"), Unres("A")>>
    /\ stack = [t \in Threads |-> <<>>]
    /\ retval = [t \in Threads |-> None]
    /\ outcome = [t \in Threads |-> Ended("idle", None)]
    /\ call = [t \in Threads |-> [o |-> "none"]]
    /\ bodyRuns = [o \in ComplexTypes |-> 0]
    /\ lookups = 0
    /\ completed = {}
    /\ nalloc = 0
    /\ customLog = {}
    /\ InitViewVars

\* one caller: the schema resolves its types one after the other
Init ==
    /\ element \in {f \in [ComplexTypes -> UNION {ElementChoices[o] : o \in ComplexTypes}] :
                       \A o \in ComplexTypes : f[o] \in ElementChoices[o]}
    /\ InitRest
    /\ extension \in {f \in [ComplexTypes -> ExtensionChoices] :
                         f["B"] # Custom("N", Obj("B"))}
    /\ restriction \in {f \in [ComplexTypes -> RestrictionChoices] :
                           f["B"] # Unres("Un")}
    /\ budget = [t \in Threads |-> IF t = "t1" THEN MaxCalls ELSE 0]

\* two callers, each resolving one type for the first time
InitConc ==
    /\ element = [o \in ComplexTypes |->
                     IF o = "A" THEN Element("a", Unres("S")) ELSE None]
    /\ InitRest
    /\ extension \in {f \in [ComplexTypes -> {None, Unres("A"), Unres("B"),
                                               Custom("N", Unres("B"))}] :
                         f["A"] \notin {None, Unres("A")} /\ f["B"] \in {None, Unres("A")}}
    /\ restriction \in {f \in [ComplexTypes -> {None, Unres("L"), Unres("Un")}] :
                           f["A"] # Unres("Un") /\ f["B"] # Unres("L")}
    /\ budget = [t \in Threads |-> 1]

Step(t) ==
    \/ ComplexType_resolve_check(t)
    \/ ComplexType_resolve_mark(t)
    \/ ComplexType_resolve_extension(t)
    \/ ComplexType_resolve_extension_store(t)
    \/ ComplexType_resolve_restriction(t)
    \/ ComplexType_resolve_restriction_store(t)
    \/ ComplexType_resolve_element(t)
    \/ ComplexType_resolve_element_store(t)
    \/ ComplexType_resolve_attributes(t)
    \/ ComplexType_resolve_attribute_store(t)
    \/ ComplexType_resolve_return(t)
    \/ UnresolvedType_resolve_get_type(t)
    \/ UnresolvedType_resolve_return(t)
    \/ UnresolvedCustomType_resolve_base(t)
    \/ UnresolvedCustomType_resolve_type(t)
    \/ SimpleType_resolve(t)
    \/ Synthesized_resolve(t)
    \/ ListType_resolve_item(t)
    \/ ListType_resolve_return(t)
    \/ UnionType_resolve_items(t)
    \/ UnionType_resolve_collect(t)
    \/ UnionType_resolve_return(t)
    \/ Element_resolve_type(t)
    \/ Element_resolve_return(t)

Next ==
    \/ \E t \in Threads, o \in ComplexTypes : Call(t, o)
    \/ \E t \in Threads : Step(t)

Spec == Init /\ [][Next]_vars

SpecConc == InitConc /\ [][Next]_vars

\* ---------------------------------------------------- the derived views
\* What reading a view returns, computed as the properties compute it: by
\* recursion along _extension, `limit` frames deep at most.

Value(v) == [k |-> "value", v |-> v]

\* UniqueAttributeName().get_name() (zeep.xsd.utils): its n-th name
UniqueAttributeName(n) == IF n = 1 THEN "_value_1" ELSE "_value_2"

RECURSIVE attributes(_, _)
\* ComplexType.attributes; Type.attributes for the other classes
attributes(ref, limit) ==
    IF ref.k = "obj" /\ ref.id \in ComplexTypes
    THEN IF limit = 0 THEN Error("RecursionError")
         ELSE LET inherited == IF Truthy(extension[ref.id])
                               THEN attributes(extension[ref.id], limit - 1)
                               ELSE Value(<<>>)
              IN  IF inherited.k = "error" THEN inherited
                  ELSE Value(inherited.v \o own_attributes[ref.id])
    ELSE IF ClassOf(ref) = "UnionType" THEN Error("AttributeError")
    ELSE Value(<<>>)

RECURSIVE elements_nested(_, _)
\* ComplexType.elements_nested; the other classes have no such attribute
elements_nested(ref, limit) ==
    IF ref.k = "obj" /\ ref.id \in ComplexTypes
    THEN IF limit = 0 THEN Error("RecursionError")
         ELSE LET ext == extension[ref.id]
                  inherited ==
                      IF ~Truthy(ext) THEN Value(<<>>)
                      ELSE IF ClassOf(ext) = "SimpleType"
                      THEN Value(<<[name |-> UniqueAttributeName(1),
                                    element |-> Element(UniqueAttributeName(1), ext)]>>)
                      ELSE elements_nested(ext, limit - 1)
                  own ==
                      IF Truthy(element[ref.id])
                      THEN <<[name |-> UniqueAttributeName(IF Truthy(ext) THEN 2 ELSE 1),
                              element |-> element[ref.id]]>>
                      ELSE <<>>
              IN  IF inherited.k = "error" THEN inherited
                  ELSE Value(inherited.v \o own)
    ELSE IF ref.k = "new" /\ ref.cls = "ComplexType" THEN Value(<<>>)
    ELSE Error("AttributeError")

\* ------------------------------------ reading the views, step by step
\* @threaded_cached_property (package cached_property): the descriptor holds
\* one RLock per decorated method; __get__ takes it, returns the entry of the
\* instance __dict__ if there is one, and otherwise calls the method and stores
\* what it returned with setdefault.  Once the entry exists the instance
\* __dict__ answers the read and __get__ is not called.

\* the list object a read returns: which body run built it, and its items
List(id, items) == [k |-> "list", id |-> id, items |-> items]

\* what the other state of the program does while views are read
resolverVars == <<resolved, extension, restriction, element, own_attributes,
                  item_type, item_types, bodyRuns, lookups, completed, nalloc,
                  customLog>>

\* every RLock the thread holds is released as its frames unwind
ReleaseAll(t) == [v \in Views |-> IF lock[v].owner = t THEN Free ELSE lock[v]]

\* RLock.release()
Release(v) ==
    [lock EXCEPT ![v] = IF @.count = 1 THEN Free ELSE [@ EXCEPT !.count = @ - 1]]

\* an exception in a view: the frames unwind, their `with self.lock` release
ViewRaise(t, error) ==
    /\ Raise(t, error)
    /\ lock' = ReleaseAll(t)

\* the running body reads obj.<view> and will go on at "finish" with the value
ViewRead(t, ref, view) ==
    IF ref.k = "obj" /\ ref.id \in ComplexTypes
    THEN IF cache[ref.id][view] # Absent
         THEN \* the instance __dict__ has the entry
              /\ stack' = [stack EXCEPT ![t][Len(stack[t])].pc = "finish"]
              /\ retval' = [retval EXCEPT ![t] = cache[ref.id][view]]
              /\ UNCHANGED <<outcome, lock>>
         ELSE IF Len(stack[t]) >= RecursionLimit
         THEN ViewRaise(t, Error("RecursionError"))
         ELSE /\ stack' = [stack EXCEPT ![t] =
                      Append([@ EXCEPT ![Len(@)].pc = "finish"],
                             [f |-> "threaded_cached_property", view |-> view,
                              o |-> ref.id, pc |-> "acquire", run |-> 0])]
              /\ UNCHANGED <<retval, outcome, lock>>
    ELSE IF view = "attributes" /\ ClassOf(ref) # "UnionType"
    THEN \* Type.attributes: return []
         /\ stack' = [stack EXCEPT ![t][Len(stack[t])].pc = "finish"]
         /\ retval' = [retval EXCEPT ![t] = List(<<"Type", view, 0>>, <<>>)]
         /\ UNCHANGED <<outcome, lock>>
    ELSE ViewRaise(t, Error("AttributeError"))

\* a thread reads a view of a ComplexType
ViewCall(t, o, view) ==
    /\ ~Running(t)
    /\ budget[t] > 0
    /\ budget' = [budget EXCEPT ![t] = @ - 1]
    /\ call' = [call EXCEPT ![t] = [o |-> o, view |-> view]]
    /\ IF cache[o][view] # Absent
       THEN /\ outcome' = [outcome EXCEPT ![t] = Ended("returned", cache[o][view])]
            /\ stack' = stack
       ELSE /\ outcome' = [outcome EXCEPT ![t] = Ended("running", None)]
            /\ stack' = [stack EXCEPT ![t] =
                   <<[f |-> "threaded_cached_property", view |-> view, o |-> o,
                      pc |-> "acquire", run |-> 0]>>]
    /\ UNCHANGED <<resolverVars, viewVars, retval>>

InView(t, view, pc) ==
    /\ Running(t)
    /\ Top(t).f = "threaded_cached_property"
    /\ Top(t).view = view
    /\ Top(t).pc = pc

\* __get__: with self.lock (an RLock: free, or held by this very thread)
threaded_cached_property_acquire(t) ==
    /\ Running(t)
    /\ Top(t).f = "threaded_cached_property"
    /\ Top(t).pc = "acquire"
    /\ lock[Top(t).view].owner \in {"none", t}
    /\ lock' = [lock EXCEPT ![Top(t).view] = [owner |-> t, count |-> @.count + 1]]
    /\ Goto(t, "check")
    /\ UNCHANGED <<resolverVars, cache, viewRuns, call, budget>>

\* __get__: try: return obj_dict[name]; except KeyError: ... self.func(obj)
threaded_cached_property_check(t) ==
    /\ Running(t)
    /\ Top(t).f = "threaded_cached_property"
    /\ Top(t).pc = "check"
    /\ IF cache[Top(t).o][Top(t).view] # Absent
       THEN /\ Return(t, cache[Top(t).o][Top(t).view])
            /\ lock' = Release(Top(t).view)
            /\ viewRuns' = viewRuns
       ELSE /\ viewRuns' = [viewRuns EXCEPT ![Top(t).o][Top(t).view] = @ + 1]
            /\ stack' = [stack EXCEPT ![t][Len(stack[t])] =
                   [@ EXCEPT !.pc = "body",
                             !.run = viewRuns[Top(t).o][Top(t).view] + 1]]
            /\ UNCHANGED <<retval, outcome, lock>>
    /\ UNCHANGED <<resolverVars, cache, call, budget>>

\* __get__: return obj_dict.setdefault(name, <what the method returned>)
Store(t, items) ==
    LET o == Top(t).o
        view == Top(t).view
        built == List(<<o, view, Top(t).run>>, items)
        kept == IF cache[o][view] # Absent THEN cache[o][view] ELSE built
    IN  /\ cache' = [cache EXCEPT ![o][view] = kept]
        /\ lock' = Release(view)
        /\ Return(t, kept)
        /\ UNCHANGED <<resolverVars, viewRuns, call, budget>>

\* attributes: result = []; if self._extension: ... self._extension.attributes
attributes_body(t) ==
    /\ InView(t, "attributes", "body")
    /\ IF Truthy(extension[Top(t).o])
       THEN ViewRead(t, extension[Top(t).o], "attributes")
       ELSE /\ stack' = [stack EXCEPT ![t][Len(stack[t])].pc = "finish"]
            /\ retval' = [retval EXCEPT ![t] = List(<<"none">>, <<>>)]
            /\ UNCHANGED <<outcome, lock>>
    /\ UNCHANGED <<resolverVars, cache, viewRuns, call, budget>>

\* attributes: result.extend(<inherited>); result.extend(self._attributes); return
attributes_return(t) ==
    /\ InView(t, "attributes", "finish")
    /\ Store(t, retval[t].items \o own_attributes[Top(t).o])

\* elements_nested: if self._extension: name = generator.get_name(); ...
elements_nested_body(t) ==
    /\ InView(t, "elements_nested", "body")
    /\ IF ~Truthy(extension[Top(t).o])
       THEN /\ stack' = [stack EXCEPT ![t][Len(stack[t])].pc = "finish"]
            /\ retval' = [retval EXCEPT ![t] = List(<<"none">>, <<>>)]
            /\ UNCHANGED <<outcome, lock>>
       ELSE IF ClassOf(extension[Top(t).o]) = "SimpleType"
       THEN /\ stack' = [stack EXCEPT ![t][Len(stack[t])].pc = "finish"]
            /\ retval' = [retval EXCEPT ![t] =
                   List(<<"none">>,
                        <<[name |-> UniqueAttributeName(1),
                           element |-> Element(UniqueAttributeName(1),
                                               extension[Top(t).o])]>>)]
            /\ UNCHANGED <<outcome, lock>>
       ELSE ViewRead(t, extension[Top(t).o], "elements_nested")
    /\ UNCHANGED <<resolverVars, cache, viewRuns, call, budget>>

\* elements_nested: if self._element: result.append((get_name(), self._element))
elements_nested_return(t) ==
    /\ InView(t, "elements_nested", "finish")
    /\ Store(t, retval[t].items \o
                (IF Truthy(element[Top(t).o])
                 THEN <<[name |-> UniqueAttributeName(
                                      IF Truthy(extension[Top(t).o]) THEN 2 ELSE 1),
                         element |-> element[Top(t).o]]>>
                 ELSE <<>>))

RECURSIVE GroupElements(_)
\* <group>.elements (zeep.xsd.elements): the (name, element) pairs of a
\* sequence, depth first
GroupElements(items) ==
    IF items = <<>> THEN <<>>
    ELSE (IF Head(items).k = "elem"
          THEN <<[name |-> Head(items).name, element |-> Head(items)]>>
          ELSE GroupElements(Head(items).items))
         \o GroupElements(Tail(items))

RECURSIVE Flatten(_)
\* elements: isinstance(element, Element) ? (element.name, element)
\*                                        : element.elements
Flatten(nested) ==
    IF nested = <<>> THEN <<>>
    ELSE (IF Head(nested).element.k = "elem"
          THEN <<[name |-> Head(nested).element.name, element |-> Head(nested).element]>>
          ELSE GroupElements(Head(nested).element.items))
         \o Flatten(Tail(nested))

\* elements: for name, element in self.elements_nested
elements_body(t) ==
    /\ InView(t, "elements", "body")
    /\ ViewRead(t, Obj(Top(t).o), "elements_nested")
    /\ UNCHANGED <<resolverVars, cache, viewRuns, call, budget>>

\* elements: ... return result
elements_return(t) ==
    /\ InView(t, "elements", "finish")
    /\ Store(t, Flatten(retval[t].items))

\* the bound on the reads a thread makes
MaxReads == 1

\* a resolved graph: every extension is a type object
InitViews ==
    /\ extension \in [ComplexTypes -> {None, Obj("A"), Obj("B"), Obj("S")}]
    /\ restriction = [o \in ComplexTypes |-> None]
    /\ element = [A |-> Element("a", Obj("S")),
                  B |-> Sequence(<<Element("b", Obj("S")), Element("c", Obj("A"))>>)]
    /\ own_attributes = [A |-> <<Element("ida", Obj("S"))>>,
                         B |-> <<Element("idb", Obj("S"))>>]
    /\ resolved = [o \in ComplexTypes |-> TRUE]
    /\ item_type = Obj("S")
    /\ item_types = <<Obj("S"), Obj("A")>>
    /\ stack = [t \in Threads |-> <<>>]
    /\ retval = [t \in Threads |-> None]
    /\ outcome = [t \in Threads |-> Ended("idle", None)]
    /\ call = [t \in Threads |-> [o |-> "none"]]
    /\ bodyRuns = [o \in ComplexTypes |-> 1]
    /\ lookups = 0
    /\ completed = ComplexTypes
    /\ nalloc = 0
    /\ customLog = {}
    /\ InitViewVars
    /\ budget = [t \in Threads |-> MaxReads]

NextViews ==
    \/ \E t \in Threads, o \in ComplexTypes, view \in Views : ViewCall(t, o, view)
    \/ \E t \in Threads : threaded_cached_property_acquire(t)
    \/ \E t \in Threads : threaded_cached_property_check(t)
    \/ \E t \in Threads : attributes_body(t)
    \/ \E t \in Threads : attributes_return(t)
    \/ \E t \in Threads : elements_nested_body(t)
    \/ \E t \in Threads : elements_nested_return(t)
    \/ \E t \in Threads : elements_body(t)
    \/ \E t \in Threads : elements_return(t)

SpecViews == InitViews /\ [][NextViews]_vars

\* --------------------------------------------- signature and serialize

RECURSIVE elements(_, _)
\* ComplexType.elements
elements(ref, limit) ==
    LET nested == elements_nested(ref, limit)
    IN  IF nested.k = "error" THEN nested ELSE Value(Flatten(nested.v))

RECURSIVE GroupSignature(_)
\* <content node>.signature() (zeep.xsd.elements), as the names of the
\* declarations it prints: an element prints itself, a group prints its
\* members one after the other.  The call carries no argument: what a node
\* prints cannot depend on the type being signed.
GroupSignature(items) ==
    IF items = <<>> THEN <<>>
    ELSE (IF Head(items).k = "elem" THEN <<Head(items).name>>
          ELSE GroupSignature(Head(items).items))
         \o GroupSignature(Tail(items))

NodeSignature(node) ==
    IF node.k = "elem" THEN <<node.name>> ELSE GroupSignature(node.items)

RECURSIVE SignatureParts(_, _)
\* signature: the loop over self.elements_nested
SignatureParts(nested, self) ==
    IF nested = <<>> THEN <<>>
    ELSE (IF Head(nested).element.k = "elem" /\ Head(nested).element.type = self
          THEN <<>>
          ELSE NodeSignature(Head(nested).element))
         \o SignatureParts(Tail(nested), self)

Names(seq) == [i \in 1..Len(seq) |-> seq[i].name]

\* ComplexType.signature, as the sequence of the names it joins
signature(o) ==
    LET nested == elements_nested(Obj(o), RecursionLimit)
        attrs == attributes(Obj(o), RecursionLimit)
    IN  IF nested.k = "error" THEN nested
        ELSE IF attrs.k = "error" THEN attrs
        ELSE Value(SignatureParts(nested.v, Obj(o)) \o Names(attrs.v))

\* getattr(value, name, None) on the value object
GetAttr(value, name) ==
    IF \E i \in 1..Len(value) : value[i].name = name
    THEN value[CHOOSE i \in 1..Len(value) : value[i].name = name].val
    ELSE "None"

\* <element>.serialize(field_value) (zeep.xsd.elements) for a scalar field
ElementSerialize(e, v) == v

\* result[key] = val on an OrderedDict: a new key goes last, a known key
\* keeps its place
Put(result, key, val) ==
    IF \E i \in 1..Len(result) : result[i].key = key
    THEN [i \in 1..Len(result) |->
             IF result[i].key = key THEN [key |-> key, val |-> val] ELSE result[i]]
    ELSE Append(result, [key |-> key, val |-> val])

RECURSIVE SerializeSubfields(_, _, _)
\* serialize: for subfield in element: result[subfield.name] = ...
\* (a group has no name: AttributeError)
SerializeSubfields(items, value, result) ==
    IF result.k = "error" \/ items = <<>> THEN result
    ELSE IF Head(items).k # "elem" THEN Error("AttributeError")
    ELSE SerializeSubfields(
             Tail(items), value,
             Value(Put(result.v, Head(items).name,
                       ElementSerialize(Head(items),
                                        GetAttr(value, Head(items).name)))))

RECURSIVE SerializeNested(_, _, _)
\* serialize: the loop over self.elements_nested
SerializeNested(nested, value, result) ==
    IF result.k = "error" \/ nested = <<>> THEN result
    ELSE SerializeNested(
             Tail(nested), value,
             IF Head(nested).element.k = "seq"
             THEN SerializeSubfields(Head(nested).element.items, value, result)
             ELSE Value(Put(result.v, Head(nested).element.name,
                            ElementSerialize(Head(nested).element,
                                GetAttr(value, Head(nested).element.name)))))

\* ComplexType.serialize
serialize(o, value) ==
    LET nested == elements_nested(Obj(o), RecursionLimit)
    IN  IF nested.k = "error" THEN nested
        ELSE SerializeNested(nested.v, value, Value(<<>>))

\* a thread asks for the signature of a type
Signature(o) ==
    /\ call' = [call EXCEPT !["t1"] = [o |-> o, op |-> "signature"]]
    /\ outcome' = [outcome EXCEPT !["t1"] = Ended("returned", signature(o))]
    /\ UNCHANGED <<resolverVars, viewVars, stack, retval, budget>>

\* the field names a value may be built with, and the orders they come in
FieldNames == {"a", "b", "c"}
Supplied ==
    {<<>>} \cup {<<[name |-> n, val |-> "x"]>> : n \in FieldNames}
    \cup {v \in {<<[name |-> n, val |-> "x"], [name |-> m, val |-> "y"]>> :
                      n \in FieldNames, m \in FieldNames} :
              v[1].name # v[2].name}

\* a thread serializes a value of a type
Serialize(o, value) ==
    /\ call' = [call EXCEPT !["t1"] = [o |-> o, op |-> "serialize", value |-> value]]
    /\ outcome' = [outcome EXCEPT !["t1"] = Ended("returned", serialize(o, value))]
    /\ UNCHANGED <<resolverVars, viewVars, stack, retval, budget>>

\* what a resolved type may hold as its content node
ContentChoices ==
    [A |-> {None,
            Element("a", Obj("S")),
            Element("next", Obj("A")),
            Sequence(<<Element("next", Obj("A")), Element("a", Obj("S"))>>)},
     B |-> {None,
            Element("a", Obj("S")),
            Element("b", Obj("S")),
            Sequence(<<Element("b", Obj("S")), Element("c", Obj("S"))>>)}]

\* resolved types without a cycle of extensions: A may extend B or a scalar
InitPure ==
    /\ extension \in {f \in [ComplexTypes -> {None, Obj("B"), Obj("S")}] :
                         f["B"] = None}
    /\ restriction = [o \in ComplexTypes |-> None]
    /\ element \in {f \in [ComplexTypes -> UNION {ContentChoices[o] : o \in ComplexTypes}] :
                       \A o \in ComplexTypes : f[o] \in ContentChoices[o]}
    /\ own_attributes \in {f \in [ComplexTypes -> {<<>>, <<Element("ida", Obj("S"))>>,
                                                   <<Element("idb", Obj("S"))>>}] :
                              /\ f["A"] # <<Element("idb", Obj("S"))>>
                              /\ f["B"] # <<Element("ida", Obj("S"))>>}
    /\ resolved = [o \in ComplexTypes |-> TRUE]
    /\ item_type = Obj("S")
    /\ item_types = <<Obj("S"), Obj("A")>>
    /\ stack = [t \in Threads |-> <<>>]
    /\ retval = [t \in Threads |-> None]
    /\ outcome = [t \in Threads |-> Ended("idle", None)]
    /\ call = [t \in Threads |-> [o |-> "none"]]
    /\ bodyRuns = [o \in ComplexTypes |-> 1]
    /\ lookups = 0
    /\ completed = ComplexTypes
    /\ nalloc = 0
    /\ customLog = {}
    /\ InitViewVars
    /\ budget = [t \in Threads |-> 0]

NextPure ==
    \/ \E o \in ComplexTypes : Signature(o)
    \/ \E o \in ComplexTypes, value \in Supplied : Serialize(o, value)

SpecPure == InitPure /\ [][NextPure]_vars

\* ================================================================ claims

Quiet == \A t \in Threads : ~Running(t)
Finished(t) == outcome[t].k \in {"returned", "raised"}

\* C1: a resolve() call on a ComplexType that is already resolved returns
\* that same object, leaves _resolved, _extension, _restriction, _element and
\* _attributes (of every type) as they were, and makes no registry lookup
\* and enters no resolve() body.
C1_ResolveIdempotent ==
    \A t \in Threads :
        (outcome[t].k # "idle" /\ call[t].wasResolved) =>
            /\ heap = call[t].heap
            /\ lookups = call[t].lookups
            /\ bodyRuns = call[t].bodyRuns
            /\ outcome[t].k = "running" \/ outcome[t] = Ended("returned", Obj(call[t].o))

\* C1's case: a second resolve() on a type whose first resolve() replaced its
\* extension by the resolved type has returned
C1_Witness ==
    \E t \in Threads :
        /\ outcome[t].k = "returned"
        /\ call[t].wasResolved
        /\ extension[call[t].o].k = "obj"

\* the extension chain of o leads back to o
RECURSIVE ExtensionChain(_, _)
ExtensionChain(ids, n) ==
    IF n = 0 THEN ids
    ELSE ExtensionChain(
             ids \cup UNION {TargetsOf(extension[i]) : i \in ids \cap ComplexTypes},
             n - 1)
Cyclic(o) ==
    o \in ExtensionChain(TargetsOf(extension[o]), Cardinality(ComplexTypes))

\* C5 as claimed: a resolve() call on a type from which an UnresolvedType
\* naming a name absent from the registry is reachable never returns normally,
\* whatever calls were made before.
C5_MissingAlwaysFails ==
    \A t \in Threads : outcome[t].k = "returned" => ~call[t].missing

\* C8 as claimed: at every moment, from a type on which some resolve() call
\* has returned normally no Unresolved* reference is reachable through
\* extension, restriction, list item type or union alternatives.
C8_NoUnresolvedAfterReturn ==
    \A o \in completed : ~UnresolvedReachable(o)

\* C9 as claimed: the type UnresolvedCustomType.resolve() returns is a new
\* object, named as asked, with the effective attributes and the effective
\* content nodes of the resolved base (wherever the base has them to read).
C9_CustomHasBaseStructure ==
    \A e \in customLog :
        /\ e.result # e.base
        /\ e.result.name = e.name
        /\ attributes(e.base, RecursionLimit).k = "value" =>
               attributes(e.result, RecursionLimit) = attributes(e.base, RecursionLimit)
        /\ elements_nested(e.base, RecursionLimit).k = "value" =>
               elements_nested(e.result, RecursionLimit)
                   = elements_nested(e.base, RecursionLimit)

\* C2: resolve() terminates on cyclic extension graphs: the body of
\* ComplexType.resolve() is entered at most once per type, the recursion never
\* exhausts the stack, and every call that runs comes to its end.
C2_CyclicResolveTerminates ==
    /\ [](\A o \in ComplexTypes : bodyRuns[o] <= 1)
    /\ [](\A t \in Threads : outcome[t] # Ended("raised", Error("RecursionError")))
    /\ \A t \in Threads : [](Running(t) => <>(~Running(t)))

\* C2's case: resolve() has returned on a type whose extension leads back to
\* itself through another ComplexType and two registry lookups
C2_Witness ==
    /\ outcome["t1"] = Ended("returned", Obj("A"))
    /\ ~call["t1"].wasResolved
    /\ extension["A"] = Obj("B") /\ extension["B"] = Obj("A")
    /\ bodyRuns = [o \in ComplexTypes |-> 1]

\* a running call is always scheduled again: threads are not starved
FairSpec == Spec /\ WF_vars(\E t \in Threads : Step(t))

\* some thread is inside the body of o.resolve()
InBody(o) ==
    \E t \in Threads : \E i \in 1..Len(stack[t]) :
        /\ stack[t][i].f = "ComplexType"
        /\ stack[t][i].o = o
        /\ stack[t][i].pc # "check"

\* C4 as claimed: when two threads call resolve() on the same ComplexType,
\* neither having been resolved before, the body of its resolution runs once,
\* and a caller gets the type back only once that resolution is complete, with
\* the references of the type replaced by resolved types.
C4_ConcurrentResolveOnce ==
    (/\ \A t \in Threads : outcome[t].k # "idle"
     /\ call["t1"].o = call["t2"].o
     /\ \A t \in Threads : ~call[t].wasResolved)
    => /\ bodyRuns[call["t1"].o] <= 1
       /\ \A t \in Threads : outcome[t].k = "returned" =>
              /\ outcome[t].v = Obj(call[t].o)
              /\ ~InBody(call[t].o)
              /\ ~IsUnresolved(extension[call[t].o])
              /\ ~IsUnresolved(restriction[call[t].o])

\* the types whose attributes and content nodes o inherits, o included
Ancestors(o) == ExtensionChain({o}, Cardinality(ComplexTypes)) \cap ComplexTypes

Count(items, x) == Cardinality({i \in 1..Len(items) : items[i] = x})

\* C3 as claimed: on a resolved ComplexType that extends itself, directly or
\* through other types, reading attributes and elements_nested completes, and
\* the list read holds every attribute (every content node) of the types of
\* the cycle exactly once.
C3_CyclicViewsEachOnce ==
    \A t \in Threads :
        (Finished(t) /\ Cyclic(call[t].o)) =>
            /\ outcome[t].k = "returned"
            /\ call[t].view = "attributes" =>
                   \A a \in Ancestors(call[t].o) :
                       \A i \in 1..Len(own_attributes[a]) :
                           Count(outcome[t].v.items, own_attributes[a][i]) = 1
            /\ call[t].view = "elements_nested" =>
                   \A a \in Ancestors(call[t].o) :
                       Cardinality({i \in 1..Len(outcome[t].v.items) :
                                       outcome[t].v.items[i].element = element[a]}) = 1

\* what reading a view of o returns when it returns at all
ViewOf(o, view) ==
    CASE view = "attributes" -> attributes(Obj(o), RecursionLimit)
      [] view = "elements_nested" -> elements_nested(Obj(o), RecursionLimit)
      [] OTHER -> elements(Obj(o), RecursionLimit)

\* the body of each view ran at most once on each instance, and every read
\* that ended returned the list object the instance keeps, fully built
ViewsComputedOnce(types) ==
    /\ \A o \in types : \A view \in Views : viewRuns[o][view] <= 1
    /\ \A t \in Threads :
           (Finished(t) /\ call[t].o \in types) =>
               /\ outcome[t].k = "returned"
               /\ outcome[t].v = cache[call[t].o][call[t].view]
               /\ Value(outcome[t].v.items) = ViewOf(call[t].o, call[t].view)

\* C10 as claimed: under every interleaving of the threads' reads, the body of
\* a view runs at most once per instance, a read never returns a partly built
\* list, and every read returns the one cached list object.
C10_ViewsComputedOnce == ViewsComputedOnce(ComplexTypes)

\* the same for the instances that do not extend themselves: for them the
\* lock and the instance __dict__ do give the guarantee
AcyclicViewsComputedOnce ==
    ViewsComputedOnce({o \in ComplexTypes : \A a \in Ancestors(o) : ~Cyclic(a)})

\* the declarations signature() has to print: every flattened element but the
\* ones typed by the type being signed, then every effective attribute
ExpectedSignature(o) ==
    LET flat == elements(Obj(o), RecursionLimit).v
        kept == SelectSeq(flat, LAMBDA p : p.element.type # Obj(o))
    IN  Names(kept) \o Names(attributes(Obj(o), RecursionLimit).v)

\* C6 as claimed: signature() ends, leaves out every element whose type is
\* the type being signed, wherever the content model declares it, and prints
\* every other element and every effective attribute in declaration order.
C6_SignatureOmitsSelfTyped ==
    (outcome["t1"].k = "returned" /\ call["t1"].op = "signature") =>
        outcome["t1"].v = Value(ExpectedSignature(call["t1"].o))

\* C7 as claimed: the keys of serialize(value) are the names of the type's
\* flattened elements, in that order, one key per flattened element, however
\* the value's fields were supplied; a field the value lacks gets the
\* element's serialization of an absent value.
C7_SerializeKeysInDeclaredOrder ==
    (outcome["t1"].k = "returned" /\ call["t1"].op = "serialize") =>
        LET flat == elements(Obj(call["t1"].o), RecursionLimit).v
        IN  /\ outcome["t1"].v.k = "value"
            /\ [i \in 1..Len(outcome["t1"].v.v) |-> outcome["t1"].v.v[i].key]
                   = Names(flat)
            /\ \A i \in 1..Len(outcome["t1"].v.v) :
                   outcome["t1"].v.v[i].val
                       = ElementSerialize(flat[i].element,
                                          GetAttr(call["t1"].value, flat[i].name))

====
